---- MODULE Spec2Model ----
(***************************************************************************)
(* Model of diffrax's UnsafeBrownianPath (src/diffrax/_brownian/path.py):  *)
(* construction (shape normalisation, dtype validation) and evaluate       *)
(* (the trace cache of eqx.filter_jit, default arguments, interval key     *)
(* derivation, key splitting over the shape tree, leaf sampling).  Times   *)
(* are Python scalars: ints, or floats in IEEE-754 binary64; arrays hold   *)
(* binary32 values.  Both are carried as their bit fields, so that bit     *)
(* patterns, signed zeros, infinities and not-a-number are all visible.    *)
(***************************************************************************)
EXTENDS Integers, Sequences, FiniteSets, TLC

(***************************************************************************)
(* Bounds of the model.                                                    *)
(***************************************************************************)
\* seeds handed to the constructor are 0 .. NumSeeds-1
NumSeeds == 2
\* the largest dimension of a leaf shape
MaxDim == 2


(***************************************************************************)
(* IEEE-754 binary32 (jnp.float32, the default floating dtype).            *)
(* A value is [s, e, m]: sign bit, biased exponent field, fraction field.  *)
(***************************************************************************)
Pow2(n) == 2 ^ n

F32(s, e, m) == [s |-> s, e |-> e, m |-> m]

PosZero == F32(0, 0, 0)
NegZero == F32(1, 0, 0)
PosInf  == F32(0, 255, 0)
NegInf  == F32(1, 255, 0)
QNaN    == F32(0, 255, 4194304)

IsNaN(x)    == x.e = 255 /\ x.m # 0
IsInf(x)    == x.e = 255 /\ x.m = 0
IsZero(x)   == x.e = 0 /\ x.m = 0
IsFinite(x) == x.e < 255

\* significand and exponent of a finite value: |x| = Sig(x) * 2^Exp2(x)
Sig(x)  == IF x.e = 0 THEN x.m ELSE 8388608 + x.m
Exp2(x) == (IF x.e = 0 THEN 1 ELSE x.e) - 150

RECURSIVE BitLen(_)
BitLen(n) == IF n = 0 THEN 0 ELSE 1 + BitLen(n \div 2)

RECURSIVE OddPart(_)
OddPart(n) == IF n = 0 \/ n % 2 = 1 THEN n ELSE OddPart(n \div 2)

RECURSIVE TrailingZeros(_)
TrailingZeros(n) == IF n = 0 \/ n % 2 = 1 THEN 0 ELSE 1 + TrailingZeros(n \div 2)

\* Round sig * 2^q (plus a little more when sticky) to the nearest binary32,
\* ties to even; overflow gives an infinity, underflow a subnormal or zero.
RoundPack(s, sig, q, sticky) ==
    IF sig = 0 THEN F32(s, 0, 0)
    ELSE
    LET Pack(kept, lsb) ==
            IF kept = 0 THEN F32(s, 0, 0)
            ELSE IF kept < 8388608 THEN F32(s, 0, kept)
            ELSE IF lsb + 150 >= 255 THEN F32(s, 255, 0)
            ELSE F32(s, lsb + 150, kept - 8388608)
        \* a round-up that carries out of the 24 bits moves the exponent up
        Carry(kept1, lsbExp) ==
            IF kept1 = 16777216 THEN Pack(8388608, lsbExp + 1) ELSE Pack(kept1, lsbExp)
        Round(kept0, rem, half, lsbExp) ==
            Carry(IF rem > half \/ (rem = half /\ (sticky \/ kept0 % 2 = 1))
                  THEN kept0 + 1 ELSE kept0,
                  lsbExp)
        Shift(n, lsbExp, shift) ==
            Round(IF shift <= 0 THEN sig * Pow2(-shift)
                  ELSE IF shift > n + 1 THEN 0
                  ELSE sig \div Pow2(shift),
                  IF shift <= 0 THEN 0
                  ELSE IF shift > n + 1 THEN 1
                  ELSE sig % Pow2(shift),
                  IF shift <= 0 THEN 1
                  ELSE IF shift > n + 1 THEN 2
                  ELSE Pow2(shift - 1),
                  lsbExp)
        Scale(n, lsbExp) == Shift(n, lsbExp, lsbExp - q)
        Place(n, E) == Scale(n, IF E - 23 > -149 THEN E - 23 ELSE -149)
        Measure(n) == Place(n, q + n - 1)
    IN  Measure(BitLen(sig))

f32_neg(x) == F32(1 - x.s, x.e, x.m)

\* x + y.  The smaller operand is shifted right with three guard bits and a
\* jammed sticky bit, as in a hardware adder.
f32_add(x, y) ==
    IF IsNaN(x) \/ IsNaN(y) THEN QNaN
    ELSE IF IsInf(x) /\ IsInf(y) THEN (IF x.s = y.s THEN x ELSE QNaN)
    ELSE IF IsInf(x) THEN x
    ELSE IF IsInf(y) THEN y
    ELSE IF IsZero(x) /\ IsZero(y) THEN (IF x.s = 1 /\ y.s = 1 THEN NegZero ELSE PosZero)
    ELSE IF IsZero(x) THEN y
    ELSE IF IsZero(y) THEN x
    ELSE
    LET qx  == Exp2(x)
        qy  == Exp2(y)
        big == IF qx >= qy THEN x ELSE y
        sml == IF qx >= qy THEN y ELSE x
        d   == Exp2(big) - Exp2(sml)
        \* both significands on the exponent of big, times 8
        sb  == Sig(big) * 8
        s0  == Sig(sml) * 8
        ss  == IF d = 0 THEN s0
               ELSE IF d > 27 THEN 1
               ELSE LET dv == Pow2(d)
                    IN  (s0 \div dv) + (IF s0 % dv # 0 /\ (s0 \div dv) % 2 = 0 THEN 1 ELSE 0)
        vb  == IF big.s = 1 THEN -sb ELSE sb
        vs  == IF sml.s = 1 THEN -ss ELSE ss
        Pack(sum) ==
            IF sum = 0 THEN PosZero
            ELSE RoundPack(IF sum < 0 THEN 1 ELSE 0, IF sum < 0 THEN -sum ELSE sum,
                           Exp2(big) - 3, FALSE)
    IN  Pack(vb + vs)

f32_sub(x, y) == f32_add(x, f32_neg(y))

\* x * y.  The product of the odd parts of the significands is exact.
f32_mul(x, y) ==
    LET s == (x.s + y.s) % 2
    IN  IF IsNaN(x) \/ IsNaN(y) THEN QNaN
        ELSE IF IsInf(x) \/ IsInf(y)
             THEN (IF IsZero(x) \/ IsZero(y) THEN QNaN ELSE F32(s, 255, 0))
        ELSE IF IsZero(x) \/ IsZero(y) THEN F32(s, 0, 0)
        ELSE RoundPack(s, OddPart(Sig(x)) * OddPart(Sig(y)),
                       Exp2(x) + Exp2(y) + TrailingZeros(Sig(x)) + TrailingZeros(Sig(y)),
                       FALSE)

\* Digit-by-digit square root: consumes the bit pairs of n from the top, then
\* extra pairs of zero bits.  <<root, remainder>>.
RECURSIVE SqrtDigits(_, _, _, _, _)
SqrtDigits(n, pairs, extra, root, rem) ==
    IF pairs = 0 /\ extra = 0 THEN <<root, rem>>
    ELSE
    LET p     == IF pairs > 0 THEN (n \div Pow2(2 * (pairs - 1))) % 4 ELSE 0
        r     == rem * 4 + p
        trial == 4 * root + 1
    IN  IF r >= trial
        THEN SqrtDigits(n, IF pairs > 0 THEN pairs - 1 ELSE 0,
                        IF pairs > 0 THEN extra ELSE extra - 1, 2 * root + 1, r - trial)
        ELSE SqrtDigits(n, IF pairs > 0 THEN pairs - 1 ELSE 0,
                        IF pairs > 0 THEN extra ELSE extra - 1, 2 * root, r)

RECURSIVE Normalise(_, _)
Normalise(sig, q) == IF sig >= 8388608 THEN <<sig, q>> ELSE Normalise(2 * sig, q - 1)

f32_sqrt(x) ==
    IF IsNaN(x) THEN QNaN
    ELSE IF IsZero(x) THEN x
    ELSE IF x.s = 1 THEN QNaN
    ELSE IF IsInf(x) THEN x
    ELSE
    LET nz  == Normalise(Sig(x), Exp2(x))
        odd == nz[2] % 2 # 0
        sig == IF odd THEN 2 * nz[1] ELSE nz[1]
        q   == IF odd THEN nz[2] - 1 ELSE nz[2]
        rr  == SqrtDigits(sig, 13, 14, 0, 0)
    IN  RoundPack(0, rr[1], (q \div 2) - 14, rr[2] # 0)

\* a Python int as a binary32
f32_of_int(n) == RoundPack(IF n < 0 THEN 1 ELSE 0, IF n < 0 THEN -n ELSE n, 0, FALSE)

\* the 32 bits of a binary32 read as a two's-complement int32
f32_bits(x) ==
    LET low == x.e * 8388608 + x.m
    IN  IF x.s = 0 THEN low ELSE (low - 2147483647) - 1

\* x rounded to a narrower binary format of p significand bits (the hidden one
\* included) and exponents emin .. emax, ties to even.  The result is carried
\* as the binary32 value equal to it.
RoundFormat(x, p, emin, emax) ==
    IF IsNaN(x) THEN QNaN
    ELSE IF IsInf(x) \/ IsZero(x) THEN x
    ELSE
    LET sig == Sig(x)
        q   == Exp2(x)
        Pack(kept, lsb) ==
            IF kept = 0 THEN F32(x.s, 0, 0)
            ELSE IF lsb + BitLen(kept) - 1 > emax THEN F32(x.s, 255, 0)
            ELSE RoundPack(x.s, kept, lsb, FALSE)
        Round(kept0, rem, half, lsb) ==
            Pack(IF rem > half \/ (rem = half /\ kept0 % 2 = 1) THEN kept0 + 1 ELSE kept0,
                 lsb)
        Shift(n, lsbExp, shift) ==
            Round(IF shift <= 0 THEN sig
                  ELSE IF shift > n + 1 THEN 0
                  ELSE sig \div Pow2(shift),
                  IF shift <= 0 THEN 0
                  ELSE IF shift > n + 1 THEN 1
                  ELSE sig % Pow2(shift),
                  IF shift <= 0 THEN 1
                  ELSE IF shift > n + 1 THEN 2
                  ELSE Pow2(shift - 1),
                  IF shift <= 0 THEN q ELSE lsbExp)
        Scale(n, lsbExp) == Shift(n, lsbExp, lsbExp - q)
        Place(n, E) == Scale(n, IF E >= emin THEN E - (p - 1) ELSE emin - (p - 1))
        Measure(n) == Place(n, q + n - 1)
    IN  Measure(BitLen(sig))

\* jnp.float16 (IEEE binary16) and jnp.bfloat16
f16_round(x)  == RoundFormat(x, 11, -14, 15)
bf16_round(x) == RoundFormat(x, 8, -126, 127)

(***************************************************************************)
(* Naturals of any size, for the 53-bit significands of binary64: a        *)
(* sequence of limbs below 2^15, the least significant first, without      *)
(* leading zero limbs.                                                     *)
(***************************************************************************)
Limb == 32768

RECURSIVE BigTrim(_)
BigTrim(b) ==
    IF b = <<>> THEN <<>>
    ELSE IF b[Len(b)] = 0 THEN BigTrim(SubSeq(b, 1, Len(b) - 1))
    ELSE b

RECURSIVE BigOfInt(_)
BigOfInt(n) == IF n = 0 THEN <<>> ELSE <<n % Limb>> \o BigOfInt(n \div Limb)

RECURSIVE BigToInt(_)
BigToInt(b) == IF b = <<>> THEN 0 ELSE Head(b) + Limb * BigToInt(Tail(b))

RECURSIVE BigMulSmall(_, _, _)
BigMulSmall(b, m, carry) ==
    IF b = <<>> THEN (IF carry = 0 THEN <<>> ELSE <<carry>>)
    ELSE LET v == Head(b) * m + carry
         IN  <<v % Limb>> \o BigMulSmall(Tail(b), m, v \div Limb)

\* b * 2^k
BigShl(b, k) ==
    IF b = <<>> THEN <<>>
    ELSE [i \in 1 .. (k \div 15) |-> 0] \o BigMulSmall(b, Pow2(k % 15), 0)

\* b div 2^k
BigShr(b, k) ==
    IF k \div 15 >= Len(b) THEN <<>>
    ELSE LET c == SubSeq(b, (k \div 15) + 1, Len(b))
             m == Pow2(k % 15)
         IN  BigTrim([i \in 1 .. Len(c) |->
                        (c[i] \div m)
                        + (IF i < Len(c) THEN (c[i + 1] % m) * (Limb \div m) ELSE 0)])

\* b mod 2^k
BigMod(b, k) ==
    BigTrim([i \in 1 .. Len(b) |->
                IF i <= k \div 15 THEN b[i]
                ELSE IF i = (k \div 15) + 1 THEN b[i] % Pow2(k % 15)
                ELSE 0])

RECURSIVE BigAddCarry(_, _, _)
BigAddCarry(a, b, carry) ==
    IF a = <<>> /\ b = <<>> THEN (IF carry = 0 THEN <<>> ELSE <<carry>>)
    ELSE LET x == IF a = <<>> THEN 0 ELSE Head(a)
             y == IF b = <<>> THEN 0 ELSE Head(b)
             v == x + y + carry
         IN  <<v % Limb>> \o BigAddCarry(IF a = <<>> THEN <<>> ELSE Tail(a),
                                         IF b = <<>> THEN <<>> ELSE Tail(b),
                                         v \div Limb)

BigAdd(a, b) == BigAddCarry(a, b, 0)

RECURSIVE BigSubBorrow(_, _, _)
BigSubBorrow(a, b, borrow) ==
    IF a = <<>> THEN <<>>
    ELSE LET y == IF b = <<>> THEN 0 ELSE Head(b)
             v == Head(a) - y - borrow
         IN  <<IF v < 0 THEN v + Limb ELSE v>>
             \o BigSubBorrow(Tail(a), IF b = <<>> THEN <<>> ELSE Tail(b),
                             IF v < 0 THEN 1 ELSE 0)

\* a - b, for a >= b
BigSub(a, b) == BigTrim(BigSubBorrow(a, b, 0))

\* a < b
RECURSIVE BigLess(_, _)
BigLess(a, b) ==
    IF Len(a) # Len(b) THEN Len(a) < Len(b)
    ELSE IF a = <<>> THEN FALSE
    ELSE IF a[Len(a)] # b[Len(b)] THEN a[Len(a)] < b[Len(b)]
    ELSE BigLess(BigTrim(SubSeq(a, 1, Len(a) - 1)), BigTrim(SubSeq(b, 1, Len(b) - 1)))

BigBitLen(b) == IF b = <<>> THEN 0 ELSE 15 * (Len(b) - 1) + BitLen(b[Len(b)])

BigOdd(b) == b # <<>> /\ b[1] % 2 = 1

(***************************************************************************)
(* IEEE-754 binary64 (a Python float).  A value is [s, e, hi, lo]: sign    *)
(* bit, biased exponent field, and the 52-bit fraction field as its upper  *)
(* and lower 26 bits.                                                      *)
(***************************************************************************)
F64(s, e, hi, lo) == [s |-> s, e |-> e, hi |-> hi, lo |-> lo]

Half26 == 67108864

IsNaN64(x)  == x.e = 2047 /\ (x.hi # 0 \/ x.lo # 0)
IsInf64(x)  == x.e = 2047 /\ x.hi = 0 /\ x.lo = 0
IsZero64(x) == x.e = 0 /\ x.hi = 0 /\ x.lo = 0

QNaN64 == F64(0, 2047, 33554432, 0)

\* |x| = Sig64(x) * 2^Exp64(x) for a finite x
Sig64(x) ==
    BigAdd(BigShl(BigOfInt((IF x.e = 0 THEN 0 ELSE Half26) + x.hi), 26), BigOfInt(x.lo))

Exp64(x) == (IF x.e = 0 THEN 1 ELSE x.e) - 1075

\* Round N * 2^q to the nearest binary64, ties to even.
RoundPack64(s, N, q) ==
    IF N = <<>> THEN F64(s, 0, 0, 0)
    ELSE
    LET Pack(kept, lsb) ==
            IF kept = <<>> THEN F64(s, 0, 0, 0)
            ELSE
            LET lo == BigToInt(BigMod(kept, 26))
                hi == BigToInt(BigMod(BigShr(kept, 26), 26))
            IN  IF BigBitLen(kept) < 53 THEN F64(s, 0, hi, lo)
                ELSE IF lsb + 1075 >= 2047 THEN F64(s, 2047, 0, 0)
                ELSE F64(s, lsb + 1075, hi, lo)
        \* a round-up that carries out of the 53 bits moves the exponent up
        Carry(kept1, lsbExp) ==
            IF BigBitLen(kept1) = 54 THEN Pack(BigShr(kept1, 1), lsbExp + 1)
            ELSE Pack(kept1, lsbExp)
        Round(M, kept0, lsbExp, shift) ==
            Carry(IF /\ shift > 0
                     /\ BigOdd(M)
                     /\ (BigMod(N, shift - 1) # <<>> \/ BigOdd(kept0))
                  THEN BigAdd(kept0, <<1>>) ELSE kept0,
                  lsbExp)
        Halve(M, lsbExp, shift) ==
            Round(M, IF shift <= 0 THEN BigShl(N, -shift) ELSE BigShr(M, 1), lsbExp, shift)
        Shift(lsbExp, shift) ==
            Halve(IF shift <= 0 THEN <<>> ELSE BigShr(N, shift - 1), lsbExp, shift)
        Scale(lsbExp) == Shift(lsbExp, lsbExp - q)
        Place(E) == Scale(IF E - 52 > -1074 THEN E - 52 ELSE -1074)
    IN  Place(q + BigBitLen(N) - 1)

f64_neg(x) == F64(1 - x.s, x.e, x.hi, x.lo)

\* x + y, the smaller operand shifted right with three guard bits and a jammed
\* sticky bit
f64_add(x, y) ==
    IF IsNaN64(x) \/ IsNaN64(y) THEN QNaN64
    ELSE IF IsInf64(x) /\ IsInf64(y) THEN (IF x.s = y.s THEN x ELSE QNaN64)
    ELSE IF IsInf64(x) THEN x
    ELSE IF IsInf64(y) THEN y
    ELSE IF IsZero64(x) /\ IsZero64(y)
         THEN (IF x.s = 1 /\ y.s = 1 THEN F64(1, 0, 0, 0) ELSE F64(0, 0, 0, 0))
    ELSE IF IsZero64(x) THEN y
    ELSE IF IsZero64(y) THEN x
    ELSE
    LET big == IF Exp64(x) >= Exp64(y) THEN x ELSE y
        sml == IF Exp64(x) >= Exp64(y) THEN y ELSE x
        d   == Exp64(big) - Exp64(sml)
        sb  == BigShl(Sig64(big), 3)
        s0  == BigShl(Sig64(sml), 3)
        ss  == IF d = 0 THEN s0
               ELSE IF d > 56 THEN <<1>>
               ELSE LET fl == BigShr(s0, d)
                    IN  IF BigMod(s0, d) # <<>> /\ ~ BigOdd(fl)
                        THEN BigAdd(fl, <<1>>) ELSE fl
    IN  IF big.s # sml.s /\ sb = ss THEN F64(0, 0, 0, 0)
        ELSE RoundPack64(IF big.s = sml.s \/ ~ BigLess(sb, ss) THEN big.s ELSE sml.s,
                         IF big.s = sml.s THEN BigAdd(sb, ss)
                         ELSE IF BigLess(sb, ss) THEN BigSub(ss, sb)
                         ELSE BigSub(sb, ss),
                         Exp64(big) - 3)

f64_sub(x, y) == f64_add(x, f64_neg(y))

\* a Python int as the binary64 equal to it (exact below 2^53)
f64_of_int(n) ==
    RoundPack64(IF n < 0 THEN 1 ELSE 0, BigOfInt(IF n < 0 THEN -n ELSE n), 0)

\* the nearest binary32, ties to even: what jnp makes of a Python float when
\* 64-bit mode is off
f64_to_f32(x) ==
    IF IsNaN64(x) THEN QNaN
    ELSE IF IsInf64(x) THEN F32(x.s, 255, 0)
    ELSE IF IsZero64(x) THEN F32(x.s, 0, 0)
    ELSE
    LET N == Sig64(x)
        n == BigBitLen(N)
        d == IF n <= 29 THEN 0 ELSE n - 29
    IN  RoundPack(x.s, BigToInt(BigShr(N, d)), Exp64(x) + d, BigMod(N, d) # <<>>)

\* x < y and x == y on binary64 values, as Python compares floats
Mag64(x) == <<x.e, x.hi, x.lo>>

MagLess(a, b) ==
    \/ a[1] < b[1]
    \/ a[1] = b[1] /\ a[2] < b[2]
    \/ a[1] = b[1] /\ a[2] = b[2] /\ a[3] < b[3]

f64_lt(x, y) ==
    /\ ~ IsNaN64(x) /\ ~ IsNaN64(y)
    /\ ~ (IsZero64(x) /\ IsZero64(y))
    /\ IF x.s # y.s THEN x.s = 1
       ELSE IF x.s = 0 THEN MagLess(Mag64(x), Mag64(y))
       ELSE MagLess(Mag64(y), Mag64(x))

f64_eq(x, y) ==
    /\ ~ IsNaN64(x) /\ ~ IsNaN64(y)
    /\ (IsZero64(x) /\ IsZero64(y)) \/ x = y

(***************************************************************************)
(* Python scalars (RealScalarLike): an int, a float (binary64), or None.   *)
(***************************************************************************)
PyInt(n)   == [kind |-> "int", i |-> n, f |-> F64(0, 0, 0, 0)]
PyFloat(x) == [kind |-> "float", i |-> 0, f |-> x]
PyNone     == [kind |-> "None", i |-> 0, f |-> F64(0, 0, 0, 0)]

\* a - b in Python: ints subtract as ints; an int meeting a float is converted
\* to the float equal to it and the difference is rounded to binary64
scalar_sub(a, b) ==
    IF a.kind = "int" /\ b.kind = "int" THEN PyInt(a.i - b.i)
    ELSE PyFloat(f64_sub(IF a.kind = "int" THEN f64_of_int(a.i) ELSE a.f,
                         IF b.kind = "int" THEN f64_of_int(b.i) ELSE b.f))

\* a == b in Python, by which a dictionary or a cache finds a key
scalar_eq(a, b) ==
    IF a.kind = "None" \/ b.kind = "None" THEN a.kind = b.kind
    ELSE IF a.kind = "int" /\ b.kind = "int" THEN a.i = b.i
    ELSE f64_eq(IF a.kind = "int" THEN f64_of_int(a.i) ELSE a.f,
                IF b.kind = "int" THEN f64_of_int(b.i) ELSE b.f)

\* a Python scalar as the float32 array jnp makes of it
as_float(a) == IF a.kind = "int" THEN f32_of_int(a.i) ELSE f64_to_f32(a.f)

\* jnp.sqrt: the argument becomes a float32 array, the result is one
jnp_sqrt(a) == f32_sqrt(as_float(a))


(***************************************************************************)
(* PyTrees.  Every node is a record of the same fields; tag says which     *)
(* are meaningful: "int" (val), "sds" (a jax.ShapeDtypeStruct: shape,      *)
(* dtype), "key" (a PRNG key: val), "array" (shape, dtype, data), "*" (a   *)
(* leaf slot of a tree structure), and the containers "tuple" (kids) and   *)
(* "dict" (keys in sorted order, kids).                                    *)
(***************************************************************************)
Node(tag, keys, kids, val, shape, dtype, data) ==
    [tag |-> tag, keys |-> keys, kids |-> kids, val |-> val,
     shape |-> shape, dtype |-> dtype, data |-> data]

IntLeaf(n)               == Node("int", <<>>, <<>>, n, <<>>, "", <<>>)
Tuple(kids)              == Node("tuple", <<>>, kids, 0, <<>>, "", <<>>)
Dict(keys, kids)         == Node("dict", keys, kids, 0, <<>>, "", <<>>)
KeyLeaf(k)               == Node("key", <<>>, <<>>, k, <<>>, "", <<>>)
Array(shape, dtype, dat) == Node("array", <<>>, <<>>, 0, shape, dtype, dat)
Star                     == Node("*", <<>>, <<>>, 0, <<>>, "", <<>>)

IsContainer(t) == t.tag \in {"tuple", "dict"}

RECURSIVE Concat(_)
Concat(ss) == IF ss = <<>> THEN <<>> ELSE Head(ss) \o Concat(Tail(ss))

RECURSIVE tree_leaves(_)
tree_leaves(t) ==
    IF IsContainer(t)
    THEN Concat([i \in 1 .. Len(t.kids) |-> tree_leaves(t.kids[i])])
    ELSE <<t>>

RECURSIVE tree_structure(_)
tree_structure(t) ==
    IF IsContainer(t)
    THEN [t EXCEPT !.kids = [i \in 1 .. Len(t.kids) |-> tree_structure(t.kids[i])]]
    ELSE Star

RECURSIVE num_leaves(_)
num_leaves(td) ==
    IF IsContainer(td)
    THEN Len(Concat([i \in 1 .. Len(td.kids) |-> [j \in 1 .. num_leaves(td.kids[i]) |-> 0]]))
    ELSE 1

\* the leaves before child i of a container
RECURSIVE LeavesBefore(_, _)
LeavesBefore(td, i) ==
    IF i = 1 THEN 0 ELSE LeavesBefore(td, i - 1) + num_leaves(td.kids[i - 1])

RECURSIVE tree_unflatten(_, _)
tree_unflatten(td, leaves) ==
    IF IsContainer(td)
    THEN [td EXCEPT !.kids =
            [i \in 1 .. Len(td.kids) |->
                tree_unflatten(td.kids[i],
                               SubSeq(leaves, LeavesBefore(td, i) + 1,
                                      LeavesBefore(td, i) + num_leaves(td.kids[i])))]]
    ELSE leaves[1]

\* jtu.tree_map(f, first, ...): the results take the structure of the first tree
tree_map_results(first, results) == tree_unflatten(tree_structure(first), results)

(***************************************************************************)
(* dtypes.  64-bit mode is off, as jax starts: a float64 or complex128     *)
(* request is served in float32 or complex64.                              *)
(***************************************************************************)
FloatingDTypes == {"float16", "bfloat16", "float32", "float64"}
ComplexDTypes  == {"complex64", "complex128"}
InexactDTypes  == FloatingDTypes \cup ComplexDTypes

\* jnp.issubdtype(dtype, jnp.inexact)
issubdtype_inexact(dtype) == dtype \in InexactDTypes

\* the dtype jax computes in when asked for dtype
canonicalize_dtype(dtype) ==
    IF dtype = "float64" THEN "float32"
    ELSE IF dtype = "complex128" THEN "complex64"
    ELSE dtype

\* a real value rounded to a real dtype
dtype_round(x, dtype) ==
    IF dtype \in {"float16", "bfloat16"}
    THEN RoundFormat(x, IF dtype = "float16" THEN 11 ELSE 8,
                        IF dtype = "float16" THEN -14 ELSE -126,
                        IF dtype = "float16" THEN 15 ELSE 127)
    ELSE x

(***************************************************************************)
(* Helpers of diffrax._misc                                                *)
(***************************************************************************)
default_floating_dtype == "float32"

is_tuple_of_ints(obj) ==
    obj.tag = "tuple" /\ \A i \in 1 .. Len(obj.kids) : obj.kids[i].tag = "int"

\* the 32 bits of a scalar read as an int32: an int is its own int32, a Python
\* float is held as a float32 array and the bits are those of that float32
force_bitcast_convert_type(val) ==
    IF val.kind = "int" THEN val.i ELSE f32_bits(as_float(val))

(***************************************************************************)
(* jax.random.  A key is a number below 8191; fold_in and split mix it;    *)
(* normal draws each element from a table of finite values, all of them    *)
(* values of every floating dtype.                                         *)
(***************************************************************************)
fold_in(key, data) == (key * 37 + (data % 8191) * 11 + 5) % 8191

split(key, num) == [i \in 1 .. num |-> (key * 53 + i * 17 + 1) % 8191]

DrawTable ==
    << F32(1, 127, 4194304), F32(0, 126, 0), F32(1, 126, 4194304),
       F32(0, 127, 2097152), F32(1, 125, 0), F32(0, 128, 0) >>

Draw(key, j) == DrawTable[((key * 7 + j * 3) % Len(DrawTable)) + 1]

RECURSIVE Prod(_)
Prod(shape) == IF shape = <<>> THEN 1 ELSE Head(shape) * Prod(Tail(shape))

\* an element is <<re>> for a real dtype and <<re, im>> for a complex one
normal(key, shape, dtype) ==
    Array(shape, canonicalize_dtype(dtype),
          [j \in 1 .. Prod(shape) |->
              IF dtype \in ComplexDTypes
              THEN <<Draw(key, 2 * j), Draw(key, 2 * j + 1)>>
              ELSE <<Draw(key, 2 * j)>>])

\* x.astype(dtype) of a real float32 scalar
astype(x, dtype) ==
    IF dtype \in ComplexDTypes THEN <<x, PosZero>>
    ELSE <<dtype_round(x, canonicalize_dtype(dtype))>>

\* the product of two elements of dtype
elem_mul(a, b, dtype) ==
    IF Len(a) = 2
    THEN << f32_sub(f32_mul(a[1], b[1]), f32_mul(a[2], b[2])),
            f32_add(f32_mul(a[1], b[2]), f32_mul(a[2], b[1])) >>
    ELSE << dtype_round(f32_mul(a[1], b[1]), dtype) >>

\* array * scalar of the same dtype, broadcast
array_mul(arr, x) ==
    [arr EXCEPT !.data = [j \in 1 .. Len(arr.data) |-> elem_mul(arr.data[j], x, arr.dtype)]]

\* split_by_tree(key, tree) of diffrax._misc: one sub-key per leaf, in the
\* structure of tree
split_by_tree(key, tree) ==
    LET treedef == tree_structure(tree)
        keys    == split(key, num_leaves(treedef))
    IN  tree_unflatten(treedef, [i \in 1 .. Len(keys) |-> KeyLeaf(keys[i])])

(***************************************************************************)
(* UnsafeBrownianPath                                                      *)
(***************************************************************************)
ShapeDtypeStruct(shape, dtype) ==
    Node("sds", <<>>, <<>>, 0, shape, dtype, <<>>)

Module(shape, key) == [shape |-> shape, key |-> key]

NoError == [type |-> "", msg |-> <<>>]

ValueError(msg) == [type |-> "ValueError", msg |-> msg]

DtypeMessage ==
    <<"UnsafeBrownianPath", "dtypes", "all", "have", "to", "be", "floating-point.">>

\* self.shape as __init__ sets it
init_shape(shape) ==
    IF is_tuple_of_ints(shape)
    THEN ShapeDtypeStruct([i \in 1 .. Len(shape.kids) |-> shape.kids[i].val],
                          default_floating_dtype)
    ELSE shape

\* the condition under which __init__ raises
init_rejects(self) ==
    \E i \in 1 .. Len(tree_leaves(self.shape)) :
        ~ issubdtype_inexact(tree_leaves(self.shape)[i].dtype)

\* (mutant) the message names the first leaf that is not inexact
init_error_leaf(self) ==
    LET ls  == tree_leaves(self.shape)
        bad == CHOOSE i \in 1 .. Len(ls) :
                  /\ ~ issubdtype_inexact(ls[i].dtype)
                  /\ \A j \in 1 .. i - 1 : issubdtype_inexact(ls[j].dtype)
    IN  ValueError(DtypeMessage \o <<"leaf", ToString(bad)>>)

init_error(self) == ValueError(DtypeMessage)

\* __init__(shape, key): the object and the exception raised, if any
UnsafeBrownianPath_init(shape, key) ==
    LET self == Module(init_shape(shape), key)
    IN  IF init_rejects(self)
        THEN [self |-> self, error |-> init_error(self)]
        ELSE [self |-> self, error |-> NoError]

\* evaluate, lines 76-78: <<t0, t1>> after the default for an omitted t1
default_args(t0, t1) == IF t1 = PyNone THEN <<PyInt(0), t0>> ELSE <<t0, t1>>

\* (mutant) t1 is folded in before t0
interval_key_swapped(key, t0, t1) ==
    LET t0_ == force_bitcast_convert_type(t0)
        t1_ == force_bitcast_convert_type(t1)
    IN  fold_in(fold_in(key, t1_), t0_)

\* evaluate, lines 82-85: the per-query key
interval_key(key, t0, t1) ==
    LET t0_ == force_bitcast_convert_type(t0)
        t1_ == force_bitcast_convert_type(t1)
    IN  fold_in(fold_in(key, t0_), t1_)

\* (mutant) the interval is measured backwards
_evaluate_leaf_backwards(t0, t1, key, shape) ==
    array_mul(normal(key, shape.shape, shape.dtype),
              astype(jnp_sqrt(scalar_sub(t0, t1)), shape.dtype))

\* (mutant) the draw is scaled by sqrt(t1), not sqrt(t1 - t0)
_evaluate_leaf_from_zero(t0, t1, key, shape) ==
    array_mul(normal(key, shape.shape, shape.dtype),
              astype(jnp_sqrt(t1), shape.dtype))

\* (mutant) every leaf is drawn in the default floating dtype
_evaluate_leaf_default_dtype(t0, t1, key, shape) ==
    array_mul(normal(key, shape.shape, default_floating_dtype),
              astype(jnp_sqrt(scalar_sub(t1, t0)), default_floating_dtype))

\* t1 - t0 is Python arithmetic on the scalars; jnp.sqrt makes the difference
\* a float32, and astype takes the root to the leaf's dtype
_evaluate_leaf(t0, t1, key, shape) ==
    array_mul(normal(key, shape.shape, shape.dtype),
              astype(jnp_sqrt(scalar_sub(t1, t0)), shape.dtype))

\* the object as evaluate leaves it
self_after_evaluate(self, key) == self

\* The body of evaluate(self, t0, t1, left), lines 72-89: the locals at return,
\* the result (out) and the object as the call leaves it.  left is deleted on
\* entry; eqxi.nondifferentiable and typing.cast return their argument's value
\* unchanged.
evaluate(self, t0, t1, left) ==
    LET a == default_args(t0, t1)
        Body(key) ==
            LET keys == split_by_tree(key, self.shape)
                kl   == tree_leaves(keys)
                sl   == tree_leaves(self.shape)
                out  == tree_map_results(keys,
                            [i \in 1 .. Len(kl) |->
                                _evaluate_leaf(a[1], a[2], kl[i].val, sl[i])])
            IN  [t0 |-> a[1], t1 |-> a[2],
                 t0_ |-> force_bitcast_convert_type(a[1]),
                 t1_ |-> force_bitcast_convert_type(a[2]),
                 key |-> key, out |-> out,
                 self |-> self_after_evaluate(self, key)]
    IN  Body(interval_key(self.key, a[1], a[2]))

(***************************************************************************)
(* eqx.filter_jit, line 71.  The arrays among the arguments (self.key) are *)
(* traced; everything else (self.shape, t0, t1, left, Python scalars all)  *)
(* is static.  The body runs once per static value, its Python scalars     *)
(* becoming constants of the trace; a later call finds the trace by the    *)
(* hash and == of its static arguments, and runs it on its own arrays.     *)
(***************************************************************************)
StaticArgs(self, t0, t1, left) ==
    [shape |-> self.shape, t0 |-> t0, t1 |-> t1, left |-> left]

\* == on the static arguments of two calls
static_eq(a, b) ==
    /\ a.shape = b.shape
    /\ scalar_eq(a.t0, b.t0)
    /\ scalar_eq(a.t1, b.t1)
    /\ a.left = b.left

\* the decorated evaluate, called with the traces made so far: what the body
\* returns (ret), the static arguments of the trace that ran (traced), and the
\* traces after the call
filter_jit(traces, self, t0, t1, left) ==
    LET a    == StaticArgs(self, t0, t1, left)
        hits == {e \in traces : static_eq(e, a)}
        Run(e) == [ret    |-> evaluate(self, e.t0, e.t1, e.left),
                   traced |-> e,
                   traces |-> traces \cup {e}]
    IN  Run(IF hits = {} THEN a ELSE CHOOSE h \in hits : TRUE)

(***************************************************************************)
(* The program: two sampler variables, each constructed at most once, and  *)
(* evaluate calls on the constructed ones, any number of them in any       *)
(* order.  The caller holds one result at a time and drops it before the   *)
(* next call.                                                              *)
(***************************************************************************)
Paths == {"p", "q"}

Seeds == 0 .. NumSeeds - 1

\* shape arguments handed to the constructor
ShapeArgs ==
    { Tuple(<<IntLeaf(MaxDim)>>),
      Dict(<<"a", "b", "c">>,
           << ShapeDtypeStruct(<<MaxDim>>, "float32"),
              Tuple(<< ShapeDtypeStruct(<<1, MaxDim>>, "complex64"),
                       ShapeDtypeStruct(<<>>, "float16") >>),
              Tuple(<< ShapeDtypeStruct(<<1>>, "float64"),
                       ShapeDtypeStruct(<<>>, "bfloat16") >>) >>),
      Dict(<<"a", "b">>,
           << ShapeDtypeStruct(<<1>>, "float32"), ShapeDtypeStruct(<<1>>, "int32") >>),
      Dict(<<"a", "b">>,
           << ShapeDtypeStruct(<<1>>, "bool"), ShapeDtypeStruct(<<1>>, "float32") >>) }

\* the Python floats 0.0, -0.0, 0.1, 0.3, 1e-46 and inf
Zero        == PyFloat(F64(0, 0, 0, 0))
MinusZero   == PyFloat(F64(1, 0, 0, 0))
Tenth       == PyFloat(F64(0, 1019, 40265318, 26843546))
ThreeTenths == PyFloat(F64(0, 1021, 13421772, 53687091))
Tiny        == PyFloat(F64(0, 870, 9515913, 2905441))
Inf         == PyFloat(F64(0, 2047, 0, 0))

\* the calls made of evaluate: <<t0, t1, left>>, t1 possibly omitted
Queries ==
    { <<Tenth, PyNone, TRUE>>,
      <<Zero, Tenth, TRUE>>,
      <<MinusZero, Tenth, TRUE>>,
      <<Tenth, ThreeTenths, TRUE>>,
      <<Tenth, ThreeTenths, FALSE>>,
      <<Tenth, Tenth, TRUE>>,
      <<Tenth, Zero, TRUE>>,
      <<Tiny, Zero, TRUE>>,
      <<MinusZero, Zero, TRUE>>,
      <<Inf, Inf, TRUE>>,
      <<Zero, PyInt(1), TRUE>> }

\* some other call of the run finds the trace made for the static arguments a
Reusable(a) ==
    \E q \in Queries :
        /\ q # <<a.t0, a.t1, a.left>>
        /\ scalar_eq(q[1], a.t0)
        /\ scalar_eq(q[2], a.t1)
        /\ q[3] = a.left

NoPath == Module(Star, 0)

VARIABLES
    paths,  \* per variable: "unborn", "live" with the object, or "failed"
    args,   \* per variable: the arguments its constructor was called with
    err,    \* per variable: the exception its constructor raised
    traces, \* the traces of evaluate that filter_jit holds, by their static
            \* arguments; a trace that no other call of the run can find is
            \* left out, making it again gives the same trace
    last    \* the result the caller holds: <<>> or
            \* <<[who, t0, t1, left, traced, ret]>>

vars == <<paths, args, err, traces, last>>

Init ==
    /\ paths = [i \in Paths |-> [state |-> "unborn", self |-> NoPath]]
    /\ args = [i \in Paths |-> NoPath]
    /\ err = [i \in Paths |-> NoError]
    /\ traces = {}
    /\ last = <<>>

\* i = UnsafeBrownianPath(shape, key)
Construct(i, shape, key) ==
    /\ paths[i].state = "unborn"
    /\ LET r == UnsafeBrownianPath_init(shape, key)
       IN  /\ paths' = [paths EXCEPT ![i] =
                          IF r.error = NoError
                          THEN [state |-> "live", self |-> r.self]
                          ELSE [state |-> "failed", self |-> NoPath]]
           /\ err' = [err EXCEPT ![i] = r.error]
    /\ args' = [args EXCEPT ![i] = Module(shape, key)]
    /\ UNCHANGED <<traces, last>>

\* last = i.evaluate(t0, t1, left), t1 possibly omitted
Evaluate(i, t0, t1, left) ==
    /\ paths[i].state = "live"
    /\ last = <<>>
    /\ LET Return(r) ==
               /\ traces' = {e \in r.traces : Reusable(e)}
               /\ last' = << [who |-> i, t0 |-> t0, t1 |-> t1, left |-> left,
                               traced |-> r.traced, ret |-> r.ret] >>
               /\ paths' = [paths EXCEPT ![i].self = r.ret.self]
       IN  Return(filter_jit(traces, paths[i].self, t0, t1, left))
    /\ UNCHANGED <<args, err>>

\* the caller drops the result it holds
Forget ==
    /\ last # <<>>
    /\ last' = <<>>
    /\ UNCHANGED <<paths, args, err, traces>>

Next ==
    \/ \E i \in Paths, shape \in ShapeArgs, key \in Seeds : Construct(i, shape, key)
    \/ \E i \in Paths, q \in Queries : Evaluate(i, q[1], q[2], q[3])
    \/ Forget

Spec == Init /\ [][Next]_vars


(***************************************************************************)
(* Vocabulary of the properties                                            *)
(***************************************************************************)
Called == last # <<>>
Call   == last[1]
Who    == paths[Call.who]

\* the endpoints of the call just made, the default for an omitted t1 applied
CallT0 == default_args(Call.t0, Call.t1)[1]
CallT1 == default_args(Call.t0, Call.t1)[2]

\* what the sampler in variable i answers now to the call (t0, t1, left)
Again(i, t0, t1, left) == filter_jit(traces, paths[i].self, t0, t1, left).ret

\* a sampler constructed afresh from the arguments variable i was constructed with
Fresh(i) == UnsafeBrownianPath_init(args[i].shape, args[i].key).self

\* the descriptor a constructor argument stands for: a plain tuple of ints is
\* one leaf of that shape in the default floating dtype
Descriptor(shape) ==
    IF shape.tag = "tuple" /\ \A k \in 1 .. Len(shape.kids) : shape.kids[k].tag = "int"
    THEN ShapeDtypeStruct([k \in 1 .. Len(shape.kids) |-> shape.kids[k].val], "float32")
    ELSE shape

\* every element of every leaf of a result
Elements(out) ==
    UNION { { tree_leaves(out)[k].data[j] : j \in 1 .. Len(tree_leaves(out)[k].data) } :
            k \in 1 .. Len(tree_leaves(out)) }

\* jnp.isnan of an element: a component is not-a-number
ElemIsNaN(x) == \E c \in 1 .. Len(x) : IsNaN(x[c])

ElemIsZero(x) == \A c \in 1 .. Len(x) : IsZero(x[c])

\* a Python scalar as the binary64 it is compared as
Real64(a) == IF a.kind = "int" THEN f64_of_int(a.i) ELSE a.f

\* a < b in Python
ScalarLess(a, b) == f64_lt(Real64(a), Real64(b))

ScalarFinite(a) == a.kind = "int" \/ a.f.e < 2047

\* the result has the structure of the descriptor, leaf shapes included
WellShaped(out, descriptor) ==
    /\ tree_structure(out) = tree_structure(descriptor)
    /\ \A k \in 1 .. Len(tree_leaves(descriptor)) :
          LET o == tree_leaves(out)[k]
              d == tree_leaves(descriptor)[k]
          IN  /\ o.tag = "array"
              /\ o.shape = d.shape
              /\ Len(o.data) = Prod(d.shape)

\* the leaves of a descriptor whose dtype is not floating-point
NonFloatingLeaves(descriptor) ==
    { k \in 1 .. Len(tree_leaves(descriptor)) :
         tree_leaves(descriptor)[k].dtype \notin {"float16", "bfloat16", "float32", "float64"} }

Constructed(i) == paths[i].state # "unborn"
Failed(i)      == paths[i].state = "failed"
Live(i)        == paths[i].state = "live"

\* the call just made was served by a trace made for other arguments
Stale == Called /\ <<Call.traced.t0, Call.traced.t1>> # <<Call.t0, Call.t1>>

\* the traces filter_jit may hold when a call is made: those it holds now, and
\* none, as in a program that has made no call of evaluate yet
Histories == {traces, {}}

(***************************************************************************)
(* C1.  Determinism: every sampler constructed with the same (descriptor,  *)
(* seed) as the one just called, the one just called included, answers the *)
(* same call with the bit-identical result, whichever calls the program    *)
(* made before.                                                            *)
(***************************************************************************)
C1_Deterministic ==
    Called =>
        \A j \in Paths, h \in Histories :
            Live(j) /\ args[j] = args[Call.who] =>
                filter_jit(h, paths[j].self, Call.t0, Call.t1, Call.left).ret.out
                    = Call.ret.out

(***************************************************************************)
(* C2.  evaluate(t) returns what evaluate(0.0, t) returns, and derives the *)
(* same per-query key.                                                     *)
(***************************************************************************)
C2_SingleArgument ==
    Called /\ Call.t1 = PyNone =>
        LET two == Again(Call.who, Zero, Call.t0, Call.left)
        IN  /\ Call.ret.out = two.out
            /\ Call.ret.key = two.key

(***************************************************************************)
(* C3.  Construction raises exactly when the descriptor has a leaf whose   *)
(* dtype is not floating-point, and then no sampler exists.                *)
(***************************************************************************)
C3_NonFloatingRejected ==
    \A i \in Paths :
        Constructed(i) =>
            /\ NonFloatingLeaves(Descriptor(args[i].shape)) # {} =>
                   Failed(i) /\ err[i].type = "ValueError"
            /\ NonFloatingLeaves(Descriptor(args[i].shape)) = {} =>
                   Live(i) /\ err[i] = NoError

(***************************************************************************)
(* C4.  Frame: at every point of every run a live sampler holds the key    *)
(* and the descriptor its construction gave it, and the result of each     *)
(* call is the one its own arguments give on a sampler fresh from the same *)
(* constructor arguments, whatever calls came before.                      *)
(***************************************************************************)
C4_Frame ==
    /\ \A i \in Paths : Live(i) => paths[i].self = Fresh(i)
    /\ Called => Call.ret.out = evaluate(Fresh(Call.who), Call.t0, Call.t1, Call.left).out

(***************************************************************************)
(* C5.  As claimed: a call with t1 < t0 returns a result of the normal     *)
(* structure and leaf shapes in which every element is not-a-number.       *)
(***************************************************************************)
C5_ReversedIsNaN ==
    Called /\ ScalarLess(CallT1, CallT0) =>
        /\ WellShaped(Call.ret.out, Who.self.shape)
        /\ \A x \in Elements(Call.ret.out) : ElemIsNaN(x)

\* t1 - t0 is so small that it is zero as a float32
Underflows(t0, t1) == IsZero(as_float(scalar_sub(t1, t0)))

(***************************************************************************)
(* C5, amended.  A call with t1 < t0 returns a result of the normal        *)
(* structure and leaf shapes; every element of it is not-a-number, unless  *)
(* t1 - t0 rounds to zero as a float32, and then every element is zero.    *)
(***************************************************************************)
C5_ReversedIsNaNOrZero ==
    Called /\ ScalarLess(CallT1, CallT0) =>
        /\ WellShaped(Call.ret.out, Who.self.shape)
        /\ IF Underflows(CallT0, CallT1)
           THEN \A x \in Elements(Call.ret.out) : ElemIsZero(x)
           ELSE \A x \in Elements(Call.ret.out) : ElemIsNaN(x)

\* evaluate(0.1, 0.0) has returned on a sampler with more than one leaf
C5_Witness ==
    /\ Called
    /\ Call.t0 = Tenth /\ Call.t1 = Zero
    /\ Len(tree_leaves(Call.ret.out)) > 1

(***************************************************************************)
(* C6.  As claimed: the result has the tree structure and keys of the      *)
(* descriptor the constructor was given, and each leaf of it the shape and *)
(* the dtype of the descriptor's leaf in the same place.                   *)
(***************************************************************************)
C6_ShapeFidelity ==
    Called =>
        LET d == Descriptor(args[Call.who].shape)
        IN  /\ WellShaped(Call.ret.out, d)
            /\ \A k \in 1 .. Len(tree_leaves(d)) :
                  tree_leaves(Call.ret.out)[k].dtype = tree_leaves(d)[k].dtype

(***************************************************************************)
(* C6, amended.  The result has the tree structure and keys of the         *)
(* descriptor, each leaf the shape of the descriptor's leaf in the same    *)
(* place, and its dtype with float64 replaced by float32 and complex128 by *)
(* complex64.                                                              *)
(***************************************************************************)
C6_CanonicalFidelity ==
    Called =>
        LET d == Descriptor(args[Call.who].shape)
        IN  /\ WellShaped(Call.ret.out, d)
            /\ \A k \in 1 .. Len(tree_leaves(d)) :
                  LET o  == tree_leaves(Call.ret.out)[k]
                      dt == tree_leaves(d)[k].dtype
                  IN  /\ o.dtype = (IF dt = "float64" THEN "float32"
                                    ELSE IF dt = "complex128" THEN "complex64"
                                    ELSE dt)
                      /\ \A j \in 1 .. Len(o.data) :
                            Len(o.data[j]) = IF dt \in {"complex64", "complex128"} THEN 2 ELSE 1

\* a result has been returned for a nested descriptor with a complex leaf and
\* a float64 leaf
C6_Witness ==
    /\ Called
    /\ \E k \in 1 .. Len(args[Call.who].shape.kids) :
          args[Call.who].shape.kids[k].tag = "tuple"
    /\ \E x, y \in Elements(Call.ret.out) : Len(x) # Len(y)
    /\ \E k \in 1 .. Len(tree_leaves(args[Call.who].shape)) :
          tree_leaves(args[Call.who].shape)[k].dtype = "float64"

(***************************************************************************)
(* C7.  As claimed: the message of a configuration error identifies the    *)
(* offending leaf, so two failed constructions with the same message have  *)
(* the same offending leaves.                                              *)
(***************************************************************************)
C7_MessageIdentifiesLeaf ==
    \A i, j \in Paths :
        Failed(i) /\ Failed(j) /\ err[i].msg = err[j].msg =>
            NonFloatingLeaves(Descriptor(args[i].shape))
                = NonFloatingLeaves(Descriptor(args[j].shape))

(***************************************************************************)
(* C7, amended.  Every configuration error is a ValueError with one fixed  *)
(* message, "UnsafeBrownianPath dtypes all have to be floating-point.",    *)
(* whichever leaf is at fault.                                             *)
(***************************************************************************)
C7_FixedMessage ==
    \A i \in Paths :
        Failed(i) =>
            /\ err[i].type = "ValueError"
            /\ err[i].msg = <<"UnsafeBrownianPath", "dtypes", "all", "have", "to", "be",
                              "floating-point.">>

\* two constructions have failed on different leaves
C7_Witness ==
    \E i, j \in Paths :
        /\ Failed(i) /\ Failed(j)
        /\ NonFloatingLeaves(Descriptor(args[i].shape))
              # NonFloatingLeaves(Descriptor(args[j].shape))

(***************************************************************************)
(* C8.  left has no effect: the call just made returns what the same call  *)
(* with the other value of left returns.                                   *)
(***************************************************************************)
C8_LeftIgnored ==
    Called => Call.ret.out = Again(Call.who, Call.t0, Call.t1, ~ Call.left).out

(***************************************************************************)
(* C9.  As claimed: of two float endpoints, different bit patterns give    *)
(* different integers and equal floating-point values give the same        *)
(* integer; t0's integer is folded into the sampler's key first, t1's      *)
(* into the result.                                                        *)
(***************************************************************************)
C9_BitsAndFloatEquality ==
    Called /\ Call.ret.t0.kind = "float" /\ Call.ret.t1.kind = "float" =>
        /\ Call.ret.t0.f # Call.ret.t1.f => Call.ret.t0_ # Call.ret.t1_
        /\ f64_eq(Call.ret.t0.f, Call.ret.t1.f) => Call.ret.t0_ = Call.ret.t1_
        /\ Call.ret.key = fold_in(fold_in(Who.self.key, Call.ret.t0_), Call.ret.t1_)

(***************************************************************************)
(* C9, amended.  The derivation of lines 82-85 works on the locals t0 and  *)
(* t1 of the body.  An int endpoint is the integer itself.  A float        *)
(* endpoint is rounded to float32 and the 32 bits of that float32 are the  *)
(* integer: float endpoints whose float32 have different bit patterns give *)
(* different integers and float endpoints with the same float32 bit        *)
(* pattern give the same integer, so that 0.0 and -0.0, equal as           *)
(* floating-point values, give different integers, and 1e-46 and 0.0,      *)
(* different Python floats, give the same.  t0's integer is folded into    *)
(* the sampler's key first, t1's into the result.                          *)
(***************************************************************************)
C9_BitsAndFoldOrder ==
    Called =>
        /\ \A t \in {<<Call.ret.t0, Call.ret.t0_>>, <<Call.ret.t1, Call.ret.t1_>>} :
              /\ t[1].kind = "int" => t[2] = t[1].i
              /\ t[1].kind = "float" =>
                    /\ t[2] < 0 <=> t[1].f.s = 1
                    /\ (t[2] % 8388608) = f64_to_f32(t[1].f).m
                    /\ ((t[2] \div 8388608) % 256) = f64_to_f32(t[1].f).e
        /\ Call.ret.t0.kind = "float" /\ Call.ret.t1.kind = "float" =>
              /\ f64_to_f32(Call.ret.t0.f) # f64_to_f32(Call.ret.t1.f)
                    => Call.ret.t0_ # Call.ret.t1_
              /\ f64_to_f32(Call.ret.t0.f) = f64_to_f32(Call.ret.t1.f)
                    => Call.ret.t0_ = Call.ret.t1_
        /\ Call.ret.key = fold_in(fold_in(Who.self.key, Call.ret.t0_), Call.ret.t1_)

\* evaluate(-0.0, 0.0) has returned: equal endpoints with different bits
C9_Witness ==
    /\ Called
    /\ Call.t0 = MinusZero /\ Call.t1 = Zero
    /\ ~ Stale
    /\ Call.ret.t0_ # Call.ret.t1_

(***************************************************************************)
(* C10.  A zero-length call at a finite t returns zeros (of either sign)   *)
(* in every element, whatever the seed.                                    *)
(***************************************************************************)
C10_ZeroLength ==
    Called /\ Call.t0 = Call.t1 /\ ScalarFinite(Call.t0) =>
        \A x \in Elements(Call.ret.out) : ElemIsZero(x)

\* evaluate(0.1, 0.1) has returned on a sampler with a complex leaf
C10_Witness ==
    /\ Called
    /\ Call.t0 = Tenth /\ Call.t1 = Call.t0
    /\ \E x \in Elements(Call.ret.out) : Len(x) = 2
====
